---- MODULE Spec2Model ----
(***************************************************************************)
(* The simulation engine of hadar (src/src/game.rs): the Game state, the   *)
(* per-turn transition Game::step, the legality query Game::valid_moves    *)
(* and the terminal classification Game::outcome.                          *)
(*                                                                         *)
(* Coordinates are pairs <<x, y>>.  Bodies are sequences from tail to head *)
(* (Rust body[0] is body[1] here).  The snake collection is a function on  *)
(* 0..n-1 so that ids are the Rust indices.                                *)
(***************************************************************************)
EXTENDS Integers, Sequences, FiniteSets, TLC

\* Board width and height of the explored games.
W == 3
H == 3
\* Number of step calls explored from each initial Game.
MaxTurn == 3

\* env::HAZARD_DAMAGE (health lost on a hazard cell instead of 1).
HAZARD_DAMAGE == 14

Cells == (0 .. W - 1) \X (0 .. H - 1)

\* Direction::all(), the 0..3 encoding used by ValidMoves.
Dirs == <<"Up", "Right", "Down", "Left">>
Dir == {Dirs[k] : k \in 1 .. 4}

Delta(d) ==
    CASE d = "Up" -> <<0, 1>>
      [] d = "Right" -> <<1, 0>>
      [] d = "Down" -> <<0, -1>>
      [] d = "Left" -> <<-1, 0>>

\* Vec2D::apply
Apply(p, d) == <<p[1] + Delta(d)[1], p[2] + Delta(d)[2]>>

\* Grid::has
Has(p) == p[1] \in 0 .. W - 1 /\ p[2] \in 0 .. H - 1

Range(s) == {s[k] : k \in 1 .. Len(s)}

Size(f) == Cardinality(DOMAIN f)

-----------------------------------------------------------------------------
(* Grid construction                                                       *)

GridNew == [c \in Cells |-> [t |-> "Free", hazard |-> FALSE]]

AddFood(g, food) ==
    [c \in Cells |-> IF c \in food THEN [g[c] EXCEPT !.t = "Food"] ELSE g[c]]

AddHazards(g, hazards) ==
    [c \in Cells |-> IF c \in hazards THEN [g[c] EXCEPT !.hazard = TRUE] ELSE g[c]]

AddSnake(g, body) ==
    [c \in Cells |-> IF c \in Range(body) THEN [g[c] EXCEPT !.t = "Owned"] ELSE g[c]]

RECURSIVE AddSnakes(_, _, _)
AddSnakes(g, sn, i) ==
    IF i >= Size(sn) THEN g ELSE AddSnakes(AddSnake(g, sn[i].body), sn, i + 1)

\* Game::new
GameNew(t, sn, food, hazards) ==
    [turn |-> t,
     grid |-> AddSnakes(AddHazards(AddFood(GridNew, food), hazards), sn, 0),
     snakes |-> sn]

-----------------------------------------------------------------------------
(* Snake                                                                   *)

SnakeNew(body, health) == [body |-> body, health |-> health]

Alive(s) == s.health > 0

HeadOf(s) == s.body[Len(s.body)]

-----------------------------------------------------------------------------
(* Game::outcome                                                           *)

\* outcome() with the survivor never recorded.
RECURSIVE OutcomeScanNoSurvivor(_, _, _, _)
OutcomeScanNoSurvivor(sn, i, living, survivor) ==
    IF i >= Size(sn) THEN <<living, survivor>>
    ELSE IF Alive(sn[i]) THEN OutcomeScanNoSurvivor(sn, i + 1, living + 1, survivor)
    ELSE OutcomeScanNoSurvivor(sn, i + 1, living, survivor)

\* The scan of outcome(): <<living_snakes, survivor>> after bodies i..n-1.
RECURSIVE OutcomeScan(_, _, _, _)
OutcomeScan(sn, i, living, survivor) ==
    IF i >= Size(sn) THEN <<living, survivor>>
    ELSE IF Alive(sn[i]) THEN OutcomeScan(sn, i + 1, living + 1, i)
    ELSE OutcomeScan(sn, i + 1, living, survivor)

Outcome(sn) ==
    LET r == OutcomeScan(sn, 0, 0, 0)
    IN  CASE r[1] = 0 -> <<"Match">>
          [] r[1] = 1 -> <<"Winner", r[2]>>
          [] OTHER -> <<"None">>

-----------------------------------------------------------------------------
(* Game::valid_moves                                                       *)

SnakeIsAlive(g, id) == id < Size(g.snakes) /\ Alive(g.snakes[id])

\* snake_move_is_valid taking every tail cell for free, stacked or not.
SnakeMoveIsValidAnyTail(g, s, d) ==
    LET p == Apply(HeadOf(s), d)
    IN  /\ Has(p)
        /\ \/ g.grid[p].t # "Owned"
           \/ \E i \in DOMAIN g.snakes :
                 Alive(g.snakes[i]) /\ p = g.snakes[i].body[1]

\* snake_move_is_valid without the tail rule.
SnakeMoveIsValidNoTail(g, s, d) ==
    LET p == Apply(HeadOf(s), d)
    IN  Has(p) /\ g.grid[p].t # "Owned"

SnakeMoveIsValid(g, s, d) ==
    LET p == Apply(HeadOf(s), d)
    IN  /\ Has(p)
        /\ \/ g.grid[p].t # "Owned"
           \/ \E i \in DOMAIN g.snakes :
                 /\ Alive(g.snakes[i])
                 /\ p = g.snakes[i].body[1]
                 /\ p # g.snakes[i].body[2]

MoveIsValid(g, id, d) ==
    SnakeIsAlive(g, id) /\ SnakeMoveIsValid(g, g.snakes[id], d)

\* The sequence the ValidMoves iterator yields.
ValidMoves(g, id) ==
    IF SnakeIsAlive(g, id)
    THEN LET Ok(d) == SnakeMoveIsValid(g, g.snakes[id], d) IN SelectSeq(Dirs, Ok)
    ELSE <<>>

-----------------------------------------------------------------------------
(* Game::step, phase by phase                                              *)

\* Pop tail that leaves the vacated cell Owned.
PopTailKeepOwned(g) ==
    [g EXCEPT
       !.snakes = [i \in DOMAIN g.snakes |->
                     IF Alive(g.snakes[i])
                     THEN [g.snakes[i] EXCEPT !.body = Tail(g.snakes[i].body)]
                     ELSE g.snakes[i]]]

\* Pop tail
PopTail(g) ==
    [g EXCEPT
       !.snakes = [i \in DOMAIN g.snakes |->
                     IF Alive(g.snakes[i])
                     THEN [g.snakes[i] EXCEPT !.body = Tail(g.snakes[i].body)]
                     ELSE g.snakes[i]],
       !.grid = [c \in Cells |->
                   IF \E i \in DOMAIN g.snakes :
                         /\ Alive(g.snakes[i])
                         /\ g.snakes[i].body[1] = c
                         /\ g.snakes[i].body[2] # c
                   THEN [g.grid[c] EXCEPT !.t = "Free"]
                   ELSE g.grid[c]]]

\* The subtraction stopping at 1.
SatSubFloorOne(a, b) == IF a > b + 1 THEN a - b ELSE 1

SatSub(a, b) == IF a > b THEN a - b ELSE 0

\* Move head & eat without the duplicated tail segment on Food.
MoveSnakeNoGrow(grid, s, d) ==
    LET head == Apply(HeadOf(s), d)
        pushed == Append(s.body, head)
    IN  IF ~Has(head) THEN [s EXCEPT !.health = 0]
        ELSE IF grid[head].t = "Owned" THEN [body |-> pushed, health |-> 0]
        ELSE IF grid[head].t = "Food" THEN [body |-> pushed, health |-> 100]
        ELSE [body |-> pushed,
              health |-> SatSub(s.health,
                                IF grid[head].hazard THEN HAZARD_DAMAGE ELSE 1)]

\* Move head & eat without the check of an Owned destination.
MoveSnakeThroughBodies(grid, s, d) ==
    LET head == Apply(HeadOf(s), d)
        pushed == Append(s.body, head)
    IN  IF ~Has(head) THEN [s EXCEPT !.health = 0]
        ELSE IF grid[head].t = "Food"
             THEN [body |-> <<pushed[1]>> \o pushed, health |-> 100]
        ELSE [body |-> pushed,
              health |-> SatSub(s.health,
                                IF grid[head].hazard THEN HAZARD_DAMAGE ELSE 1)]

\* Move head & eat, one body (body already without its tail)
MoveSnake(grid, s, d) ==
    LET head == Apply(HeadOf(s), d)
        pushed == Append(s.body, head)
    IN  IF ~Has(head) THEN [s EXCEPT !.health = 0]
        ELSE IF grid[head].t = "Owned" THEN [body |-> pushed, health |-> 0]
        ELSE IF grid[head].t = "Food"
             THEN [body |-> <<pushed[1]>> \o pushed, health |-> 100]
        ELSE [body |-> pushed,
              health |-> SatSub(s.health,
                                IF grid[head].hazard THEN HAZARD_DAMAGE ELSE 1)]

\* The move phase reading the move of a living body at its rank among the
\* living bodies instead of at its index.
MoveHeadCompact(g, mv) ==
    [g EXCEPT
       !.snakes = [i \in DOMAIN g.snakes |->
                     IF Alive(g.snakes[i])
                     THEN MoveSnake(g.grid, g.snakes[i],
                            mv[Cardinality({k \in 0 .. i - 1 : Alive(g.snakes[k])})])
                     ELSE g.snakes[i]]]

MoveHead(g, mv) ==
    [g EXCEPT
       !.snakes = [i \in DOMAIN g.snakes |->
                     IF Alive(g.snakes[i])
                     THEN MoveSnake(g.grid, g.snakes[i], mv[i])
                     ELSE g.snakes[i]]]

\* The comparison of one pair with Less and Greater exchanged.
CollideLongerDies(sn, i, j) ==
    IF Len(sn[i].body) < Len(sn[j].body) THEN [sn EXCEPT ![j].health = 0]
    ELSE IF Len(sn[i].body) > Len(sn[j].body) THEN [sn EXCEPT ![i].health = 0]
    ELSE [sn EXCEPT ![i].health = 0, ![j].health = 0]

\* Check head to head: the comparison of one pair
Collide(sn, i, j) ==
    IF Len(sn[i].body) < Len(sn[j].body) THEN [sn EXCEPT ![i].health = 0]
    ELSE IF Len(sn[i].body) > Len(sn[j].body) THEN [sn EXCEPT ![j].health = 0]
    ELSE [sn EXCEPT ![i].health = 0, ![j].health = 0]

\* The inner loop leaving off once body i is dead.
RECURSIVE HeadToHeadInnerWhileAlive(_, _, _)
HeadToHeadInnerWhileAlive(sn, i, j) ==
    IF j >= Size(sn) \/ ~Alive(sn[i]) THEN sn
    ELSE IF Alive(sn[j]) /\ HeadOf(sn[i]) = HeadOf(sn[j])
         THEN HeadToHeadInnerWhileAlive(Collide(sn, i, j), i, j + 1)
         ELSE HeadToHeadInnerWhileAlive(sn, i, j + 1)

RECURSIVE HeadToHeadInner(_, _, _)
HeadToHeadInner(sn, i, j) ==
    IF j >= Size(sn) THEN sn
    ELSE IF Alive(sn[j]) /\ HeadOf(sn[i]) = HeadOf(sn[j])
         THEN HeadToHeadInner(Collide(sn, i, j), i, j + 1)
         ELSE HeadToHeadInner(sn, i, j + 1)

RECURSIVE HeadToHeadOuter(_, _)
HeadToHeadOuter(sn, i) ==
    IF i >= Size(sn) - 1 THEN sn
    ELSE IF Alive(sn[i]) THEN HeadToHeadOuter(HeadToHeadInner(sn, i, i + 1), i + 1)
    ELSE HeadToHeadOuter(sn, i + 1)

HeadToHead(g) == [g EXCEPT !.snakes = HeadToHeadOuter(g.snakes, 0)]

\* Clear died snakes, in index order
RECURSIVE ClearDied(_, _)
ClearDied(g, i) ==
    IF i >= Size(g.snakes) THEN g
    ELSE IF Alive(g.snakes[i])
         THEN ClearDied([g EXCEPT !.grid[HeadOf(g.snakes[i])].t = "Owned"], i + 1)
    ELSE IF g.snakes[i].body # <<>>
         THEN ClearDied(
                [g EXCEPT
                   !.grid = [c \in Cells |->
                               IF c \in Range(g.snakes[i].body)
                               THEN [g.grid[c] EXCEPT !.t = "Free"]
                               ELSE g.grid[c]],
                   !.snakes[i].body = <<>>],
                i + 1)
    ELSE ClearDied(g, i + 1)

\* Clear died snakes that empties the dead bodies and leaves their cells.
CleanupKeepCells(g) ==
    [g EXCEPT
       !.snakes = [i \in DOMAIN g.snakes |->
                     IF Alive(g.snakes[i]) THEN g.snakes[i]
                     ELSE [g.snakes[i] EXCEPT !.body = <<>>]],
       !.grid = [c \in Cells |->
                   IF \E i \in DOMAIN g.snakes :
                         Alive(g.snakes[i]) /\ HeadOf(g.snakes[i]) = c
                   THEN [g.grid[c] EXCEPT !.t = "Owned"]
                   ELSE g.grid[c]]]

\* The cleanup freeing the cells of a dead body but keeping its segment list.
CleanupKeepBodies(g) ==
    LET c == ClearDied(g, 0)
    IN  [c EXCEPT !.snakes = [i \in DOMAIN c.snakes |->
                                [c.snakes[i] EXCEPT !.body = g.snakes[i].body]]]

\* The cleanup loop starting at body 1.
CleanupFromOne(g) == ClearDied(g, 1)

\* The cleanup tagging the heads of the living and leaving the dead as they are.
CleanupHeadsOnly(g) ==
    [g EXCEPT
       !.grid = [c \in Cells |->
                   IF \E i \in DOMAIN g.snakes :
                         Alive(g.snakes[i]) /\ HeadOf(g.snakes[i]) = c
                   THEN [g.grid[c] EXCEPT !.t = "Owned"]
                   ELSE g.grid[c]]]

Cleanup(g) == ClearDied(g, 0)

\* The phases after the assertion.
StepBody(g, mv) ==
    LET c == Cleanup(HeadToHead(MoveHead(PopTail(g), mv)))
    IN  [c EXCEPT !.turn = g.turn + 1]

\* Game::step with the assertion placed after the tail retraction.
StepResultLateAssert(g, mv) ==
    IF Size(mv) >= Size(g.snakes)
    THEN [ret |-> "ok", game |-> StepBody(g, mv)]
    ELSE [ret |-> "panic", game |-> PopTail(g)]

\* Game::step: the assertion on the moves vector, then the phases.
StepResult(g, mv) ==
    IF Size(mv) >= Size(g.snakes)
    THEN [ret |-> "ok", game |-> StepBody(g, mv)]
    ELSE [ret |-> "panic", game |-> g]

-----------------------------------------------------------------------------
(* StarAgent: target selection and the safety filter (agents/astar.rs)     *)

\* An upper limit on the candidates one decision draws; the code has none.
MaxDraws == 5

\* The order of the food scan: y ascending, then x ascending.
ScanOrder == [k \in 1 .. W * H |-> <<(k - 1) % W, (k - 1) \div W>>]

\* The Food cells in the order the scan met them.
FoodCells(g) == SelectSeq(ScanOrder, LAMBDA c : g.grid[c].t = "Food")

\* The squared Euclidean distance of the comparison closure.
Dist2(a, b) == (a[1] - b[1]) * (a[1] - b[1]) + (a[2] - b[2]) * (a[2] - b[2])

\* min_by keeping the later of two equally near cells.
RECURSIVE MinByLast(_, _, _, _)
MinByLast(food, h, i, best) ==
    IF i > Len(food) THEN best
    ELSE MinByLast(food, h, i + 1,
                   IF Dist2(best, h) >= Dist2(food[i], h) THEN food[i] ELSE best)

\* Iterator::min_by: the element kept is replaced only by a strictly lesser one.
RECURSIVE MinBy(_, _, _, _)
MinBy(food, h, i, best) ==
    IF i > Len(food) THEN best
    ELSE MinBy(food, h, i + 1,
               IF Dist2(best, h) > Dist2(food[i], h) THEN food[i] ELSE best)

\* Snake::head fails on an empty segment list (unwrap of None).
HeadPanics(s) == s.body = <<>>

\* The target of StarAgent::step: <<"None">> without Food, else <<"Some", cell>>;
\* <<"Panic">> when Food exists and self has no head to measure from.
TargetOf(g) ==
    LET food == FoodCells(g)
    IN  IF food = <<>> THEN <<"None">>
        ELSE IF HeadPanics(g.snakes[0]) THEN <<"Panic">>
        ELSE <<"Some", MinBy(food, HeadOf(g.snakes[0]), 2, food[1])>>

\* A cell the Pathfinder may step on.
Passable(g, c) == Has(c) /\ g.grid[c].t # "Owned"

\* The breadth-first search of the Pathfinder.  front holds, for every cell
\* first reached after the present number of steps, the pairs <<d, cell>> with
\* d the first direction of a shortest path to it; seen holds the cells
\* reached so far.  The result is the set of first directions of the shortest
\* paths to goal, empty when goal is out of reach.
RECURSIVE Search(_, _, _, _)
Search(g, goal, front, seen) ==
    IF front = {} THEN {}
    ELSE IF \E f \in front : f[2] = goal
         THEN {f[1] : f \in {x \in front : x[2] = goal}}
    ELSE UNION {Search(g, goal, nf, seen \cup {f[2] : f \in nf}) :
                  nf \in {{<<x[1][1], Apply(x[1][2], x[2])>> :
                              x \in {y \in front \X Dir :
                                        /\ Passable(g, Apply(y[1][2], y[2]))
                                        /\ Apply(y[1][2], y[2]) \notin seen}}}}

\* Grid::a_star followed by Direction::from(path[1] - path[0]): the first
\* directions of the shortest paths from start to goal, none when there is no
\* path or the path is the single cell start.  Which of several shortest paths
\* is returned is left open.
AStarFirst(g, start, goal) ==
    IF start = goal THEN {}
    ELSE UNION {Search(g, goal, fr, {start} \cup {f[2] : f \in fr}) :
                  fr \in {{<<d, Apply(start, d)>> :
                              d \in {e \in Dir : Passable(g, Apply(start, e))}}}}

\* The test of move_check passing every rival at least as long as self.
MoveCheckRejectsNever(g, mv) == FALSE

\* The test of move_check: some rival at least as long as self has its head
\* one step from the cell the move leads to.
MoveCheckRejects(g, mv) ==
    LET my == g.snakes[0]
        future_pos == Apply(HeadOf(my), mv)
    IN  \E j \in 1 .. Size(g.snakes) - 1 :
           /\ Len(g.snakes[j].body) >= Len(my.body)
           /\ \E d \in Dir : Apply(HeadOf(g.snakes[j]), d) = future_pos

\* The candidates of random with the blacklist not applied.
RandomMovesUnfiltered(g, nots) == ValidMoves(g, 0)

\* The candidates of random: the legal moves of self without the blacklist.
RandomMoves(g, nots) ==
    SelectSeq(ValidMoves(g, 0), LAMBDA d : \A k \in 1 .. Len(nots) : nots[k] # d)

\* The result of random with no candidate left and no default for an empty
\* valid_moves.
RandomExhaustedNoDefault(g) ==
    LET vm == ValidMoves(g, 0)
    IN  IF vm = <<>> THEN "panic" ELSE vm[1]

\* The result of random with no candidate left naming the last legal move.
RandomExhaustedLast(g) ==
    LET vm == ValidMoves(g, 0)
    IN  IF vm = <<>> THEN "Up" ELSE vm[Len(vm)]

\* The result of random with no candidate left: the first legal move, or Up.
RandomExhausted(g) ==
    LET vm == ValidMoves(g, 0)
    IN  IF vm = <<>> THEN "Up" ELSE vm[1]

-----------------------------------------------------------------------------
(* Game::from_request                                                      *)

\* The most rivals a request of the model holds.
MaxRivals == 5

\* board.snakes.len() above which only the nearest rivals are kept.
PruneAbove == 4

\* The number of turns of the loop "for _ in 1..3", one pop each.
PopCount == 3 - 1

\* Iterator::rev of the body of a Battlesnake, which lists the head first.
Reversed(b) == [k \in 1 .. Len(b) |-> b[Len(b) + 1 - k]]

\* Snake::from
SnakeFrom(bs) == SnakeNew(Reversed(bs.body), bs.health)

\* Vec2D::manhattan of the difference of two points.
Manhattan(a, b) ==
    (IF a[1] >= b[1] THEN a[1] - b[1] ELSE b[1] - a[1])
    + (IF a[2] >= b[2] THEN a[2] - b[2] ELSE b[2] - a[2])

\* body_dist: the least distance of a segment from p, 0 for no segment.
BodyDist(s, p) ==
    IF s.body = <<>> THEN 0
    ELSE CHOOSE n \in {Manhattan(c, p) : c \in Range(s.body)} :
            \A c \in Range(s.body) : n <= Manhattan(c, p)

\* The snakes of the board other than self, in the order of the request.
Others(req) == SelectSeq(req.board, LAMBDA bs : bs.id # req.you.id)

\* The sequences k pops can take from a BinaryHeap holding the snakes of rv
\* with the indices in pool, keyed by Reverse(body_dist): each pop takes a
\* snake of least distance; which of several equally near ones is left open
\* (OrdPair compares the key only).
RECURSIVE Pops(_, _, _, _)
Pops(rv, p, pool, k) ==
    IF k = 0 \/ pool = {} THEN {<<>>}
    ELSE UNION {{<<rv[i]>> \o rest : rest \in Pops(rv, p, pool \ {i}, k - 1)} :
                  i \in {j \in pool :
                            \A l \in pool : BodyDist(rv[j], p) <= BodyDist(rv[l], p)}}

\* The snake lists from_request can hand to Game::new.
FromRequestSnakes(req) ==
    LET you == SnakeFrom(req.you)
        rv == [k \in 1 .. Len(Others(req)) |-> SnakeFrom(Others(req)[k])]
    IN  IF Len(req.board) > PruneAbove
        THEN {<<you>> \o q : q \in Pops(rv, HeadOf(you), 1 .. Len(rv), PopCount)}
        ELSE {<<you>> \o rv}

\* Game::from_request
FromRequestGames(req) ==
    {GameNew(req.turn, [i \in 0 .. Len(q) - 1 |-> q[i + 1]], req.food, req.hazards) :
        q \in FromRequestSnakes(req)}

-----------------------------------------------------------------------------
(* State                                                                   *)

VARIABLES
    turn,     \* Game::turn
    grid,     \* Game::grid
    snakes,   \* Game::snakes
    moves,    \* the moves vector of the last step call
    prev,     \* the Game the last step call was made on
    ret,      \* "init" before any call, then "ok" or "panic" (assertion failed)
    pc,       \* where the decision of StarAgent stands: "idle", "random",
              \* "move_check" or "done"
    target,   \* the target of the decision, <<"None">> or <<"Some", cell>>
    tier,     \* "path" when the first candidate came from a_star, else "random"
    cand,     \* the move under test in move_check
    nots,     \* the blacklist (None and the empty list read alike)
    draws,    \* the number of candidates random has drawn
    exhausted,\* random returned with no candidate left
    resp,     \* the direction of the MoveResponse
    request   \* the GameRequest the Game was loaded from, <<>> for none

planVars == <<pc, target, tier, cand, nots, draws, exhausted, resp>>

vars == <<turn, grid, snakes, moves, prev, ret, planVars, request>>

Game == [turn |-> turn, grid |-> grid, snakes |-> snakes]

c00 == <<0, 0>>
c10 == <<1, 0>>
c20 == <<2, 0>>
c01 == <<0, 1>>
c11 == <<1, 1>>
c21 == <<2, 1>>
c02 == <<0, 2>>
c22 == <<2, 2>>

\* Bodies of body 0: one move after spawn, the same having eaten, stretched
\* with its tail next to the rival's head, coiled with its head next to its tail.
Bodies0 ==
    {<<c00, c00, c01>>, <<c00, c00, c00, c01>>, <<c11, c01, c02>>,
     <<c00, c10, c11, c01>>}

\* Bodies of body 1: one move after spawn, and the same having eaten.
Bodies1 == {<<c20, c20, c21>>, <<c20, c20, c20, c21>>}

Healths == {1, 100}

\* <<food, hazards>>
Boards == {<<{}, {}>>, <<{c11}, {c22}>>, <<{c22, c02}, {c11}>>}

\* The moves vectors passed to step for n bodies: full ones and too short ones.
MoveVecs(n) == UNION {[0 .. k - 1 -> Dir] : k \in 0 .. n}

\* No decision has been asked for.
PlanIdle ==
    /\ pc = "idle"
    /\ target = <<"None">>
    /\ tier = "none"
    /\ cand = "none"
    /\ nots = <<>>
    /\ draws = 0
    /\ exhausted = FALSE
    /\ resp = "none"

\* The snake collections the explored games start from.
InitSnakes ==
    LET two == {<<SnakeNew(b0, h0), SnakeNew(b1, h1)>> :
                   <<b0, b1, h0, h1>> \in Bodies0 \X Bodies1 \X Healths \X Healths}
    IN  {[i \in 0 .. Len(q) - 1 |-> q[i + 1]] : q \in two}

Init ==
    \E sn \in InitSnakes, bd \in Boards :
       LET g == GameNew(0, sn, bd[1], bd[2])
       IN  /\ turn = g.turn
           /\ grid = g.grid
           /\ snakes = g.snakes
           /\ moves = <<>>
           /\ prev = g
           /\ ret = "init"
           /\ PlanIdle
           /\ request = <<>>

\* One call of Game::step.  A failed assertion ends the program.
Step ==
    /\ ret # "panic"
    /\ turn < MaxTurn
    /\ \E mv \in MoveVecs(Size(snakes)) :
          LET r == StepResult(Game, mv)
          IN  /\ ret' = r.ret
              /\ turn' = r.game.turn
              /\ grid' = r.game.grid
              /\ snakes' = r.game.snakes
              /\ moves' = mv
              /\ prev' = Game
    /\ UNCHANGED <<planVars, request>>

Next == Step

Spec == Init /\ [][Next]_vars

-----------------------------------------------------------------------------
(* One decision of StarAgent on a snapshot                                 *)

c12 == <<1, 2>>

\* Self in the snapshots: spawned in the centre, cornered with its neck beside
\* it, grown to four with its head in the centre, coiled head next to tail.
PlanBodies0 ==
    {<<c11, c11, c11>>, <<c01, c01, c00>>, <<c10, c10, c10, c11>>,
     <<c00, c10, c11, c01>>}

\* The rivals in the snapshots: none, one or two, of length three or four, and
\* the placeholder of a dead one.
PlanRivals ==
    {<<>>,
     <<SnakeNew(<<c22, c22, c22>>, 100)>>,
     <<SnakeNew(<<c20, c20, c21>>, 100)>>,
     <<SnakeNew(<<c20, c20, c10>>, 100)>>,
     <<SnakeNew(<<c22, c22, c21, c20>>, 100)>>,
     <<SnakeNew(<<c00, c00, c00>>, 100), SnakeNew(<<c22, c22, c22>>, 100)>>,
     <<SnakeNew(<<c02, c02, c02>>, 100), SnakeNew(<<c20, c20, c21>>, 100)>>,
     <<[body |-> <<>>, health |-> 0], SnakeNew(<<c22, c22, c12>>, 100)>>}

PlanFoods == {{}, {c02}, {c20}, {c02, c20}, {c12, c21}, {c00, c22}}

\* The snapshots a decision is asked for: self living, no two bodies and no
\* body and Food on one cell.
PlanGames ==
    {GameNew(0, [i \in 0 .. Len(q) - 1 |-> q[i + 1]], fd, {}) :
        <<q, fd>> \in
           {<<<<SnakeNew(b0, 100)>> \o rv, f>> :
               <<b0, rv, f>> \in
                  {x \in PlanBodies0 \X PlanRivals \X PlanFoods :
                      /\ \A k \in 1 .. Len(x[2]) :
                            Range(x[2][k].body) \cap (Range(x[1]) \cup x[3]) = {}
                      /\ Range(x[1]) \cap x[3] = {}
                      /\ \A k, l \in 1 .. Len(x[2]) :
                            k < l => Range(x[2][k].body) \cap Range(x[2][l].body) = {}}}}

InitPlan ==
    \E g \in PlanGames :
       /\ turn = g.turn
       /\ grid = g.grid
       /\ snakes = g.snakes
       /\ moves = <<>>
       /\ prev = g
       /\ ret = "init"
       /\ PlanIdle
       /\ request = <<>>

\* StarAgent::step up to its call of move_check or random: the food scan, the
\* target, the path.
PlanStart ==
    /\ pc = "idle"
    /\ target' = TargetOf(Game)
    /\ LET first == IF target'[1] = "Some"
                    THEN AStarFirst(Game, HeadOf(snakes[0]), target'[2])
                    ELSE {}
       IN  IF target'[1] = "Panic"
           THEN /\ resp' = "panic"
                /\ pc' = "done"
                /\ UNCHANGED <<cand, tier>>
           ELSE IF first # {}
           THEN /\ \E d \in first : cand' = d
                /\ tier' = "path"
                /\ pc' = "move_check"
                /\ resp' = resp
           ELSE /\ cand' = cand
                /\ tier' = "random"
                /\ pc' = "random"
                /\ resp' = resp
    /\ UNCHANGED <<turn, grid, snakes, moves, prev, ret, nots, draws, exhausted, request>>

\* One call of random: the result when no candidate is left, else a candidate
\* chosen by the generator and handed to move_check.
Random ==
    /\ pc = "random"
    /\ LET mvs == RandomMoves(Game, nots)
       IN  IF mvs = <<>>
           THEN /\ resp' = RandomExhausted(Game)
                /\ exhausted' = TRUE
                /\ pc' = "done"
                /\ UNCHANGED <<cand, draws>>
           ELSE /\ draws < MaxDraws
                /\ \E k \in 1 .. Len(mvs) : cand' = mvs[k]
                /\ draws' = draws + 1
                /\ pc' = "move_check"
                /\ UNCHANGED <<resp, exhausted>>
    /\ UNCHANGED <<turn, grid, snakes, moves, prev, ret, target, tier, nots, request>>

\* One call of move_check: the move is blacklisted and random called, or it is
\* the result.
MoveCheck ==
    /\ pc = "move_check"
    /\ IF HeadPanics(snakes[0])
       THEN /\ resp' = "panic"
            /\ pc' = "done"
            /\ nots' = nots
       ELSE IF MoveCheckRejects(Game, cand)
       THEN /\ nots' = Append(nots, cand)
            /\ pc' = "random"
            /\ resp' = resp
       ELSE /\ resp' = cand
            /\ pc' = "done"
            /\ nots' = nots
    /\ UNCHANGED <<turn, grid, snakes, moves, prev, ret, target, tier, cand, draws, exhausted, request>>

NextPlan == PlanStart \/ Random \/ MoveCheck

SpecPlan == InitPlan /\ [][NextPlan]_vars

\* The decision is made to its end: nothing else runs in its thread.
FairPlan == SpecPlan /\ WF_vars(NextPlan)

-----------------------------------------------------------------------------
(* Loading a Game from a request                                           *)

\* A Battlesnake of a request resting on cell p, its id naming the cell.
Coiled(p) == [id |-> <<"coiled", p>>, body |-> <<p, p, p>>, health |-> 100]

\* The rivals a request may hold: one coiled on every cell but the centre, and
\* one with its head in a corner and its tail beside it.
RivalPool ==
    {Coiled(p) : p \in Cells \ {c11}}
       \cup {[id |-> <<"bent", c00>>, body |-> <<c00, c00, c10>>, health |-> 100]}

\* The rivals of S, which rest on cells of their own, in the order of their heads
\* by rows.
RECURSIVE InOrder(_)
InOrder(S) ==
    IF S = {} THEN <<>>
    ELSE LET f == CHOOSE b \in S :
                     \A o \in S \ {b} :
                        \/ b.body[1][2] < o.body[1][2]
                        \/ b.body[1][2] = o.body[1][2] /\ b.body[1][1] < o.body[1][1]
         IN  <<f>> \o InOrder(S \ {f})

\* The requests: self coiled in the centre, up to MaxRivals rivals on cells
\* of their own, self listed first or last on the board, one Food or none.
Requests ==
    LET you == [id |-> <<"you">>, body |-> <<c11, c11, c11>>, health |-> 100]
        sets == {S \in SUBSET RivalPool :
                    /\ Cardinality(S) <= MaxRivals
                    /\ \A a, b \in S : a # b => Range(a.body) \cap Range(b.body) = {}}
    IN  {[you |-> you, board |-> bd, turn |-> 0, food |-> {}, hazards |-> {}] :
            bd \in UNION {{<<you>> \o InOrder(S), InOrder(S) \o <<you>>} : S \in sets}}

InitReq ==
    /\ request \in Requests
    /\ turn = 0
    /\ grid = GridNew
    /\ snakes = <<>>
    /\ moves = <<>>
    /\ prev = [turn |-> 0, grid |-> GridNew, snakes |-> <<>>]
    /\ ret = "init"
    /\ PlanIdle

\* Agent::step loading the Game: one call of Game::from_request.
FromRequest ==
    /\ ret = "init"
    /\ \E g \in FromRequestGames(request) :
          /\ turn' = g.turn
          /\ grid' = g.grid
          /\ snakes' = g.snakes
          /\ prev' = g
    /\ ret' = "loaded"
    /\ UNCHANGED <<moves, planVars, request>>

NextReq == FromRequest

SpecReq == InitReq /\ [][NextReq]_vars

-----------------------------------------------------------------------------
(* One step of a game of three or four bodies                              *)

\* Three or four bodies, each of length three or four with its head one step
\* from the centre, fed or about to starve; Food in the centre or none.
ManySnakes ==
    LET at == <<{<<c00, c00, c01>>, <<c00, c00, c00, c01>>},
                {<<c20, c20, c10>>, <<c20, c20, c20, c10>>},
                {<<c22, c22, c21>>, <<c22, c22, c22, c21>>},
                {<<c02, c02, c12>>, <<c02, c02, c02, c12>>}>>
        three == {<<SnakeNew(x[1], x[4]), SnakeNew(x[2], x[5]), SnakeNew(x[3], x[6])>> :
                     x \in at[1] \X at[2] \X at[3] \X Healths \X Healths \X Healths}
        four == {<<SnakeNew(x[1], 100), SnakeNew(x[2], 100), SnakeNew(x[3], 100),
                   SnakeNew(x[4], 100)>> :
                    x \in at[1] \X at[2] \X at[3] \X at[4]}
    IN  {[i \in 0 .. Len(q) - 1 |-> q[i + 1]] : q \in three \cup four}

InitMany ==
    \E sn \in ManySnakes, fd \in {{}, {c11}} :
       LET g == GameNew(0, sn, fd, {})
       IN  /\ turn = g.turn
           /\ grid = g.grid
           /\ snakes = g.snakes
           /\ moves = <<>>
           /\ prev = g
           /\ ret = "init"
           /\ PlanIdle
           /\ request = <<>>

\* The first call of Game::step on the Game.
StepFirst == ret = "init" /\ Step

NextMany == StepFirst

SpecMany == InitMany /\ [][NextMany]_vars

-----------------------------------------------------------------------------
(* A game played until every body has starved                              *)

\* The number of step calls made at most; a body that has eaten starves a
\* hundred calls later.
MaxStarveTurn == 104

\* Two bodies about to starve; no Food, or one Food cell within reach, or two
\* on a board of hazard cells.
InitStarve ==
    \E h0, h1 \in {1, 2}, bd \in {<<{}, {}>>, <<{c11}, {}>>, <<{c11, c12}, Cells>>} :
       LET sn == <<SnakeNew(<<c00, c00, c01>>, h0), SnakeNew(<<c20, c20, c21>>, h1)>>
           g == GameNew(0, [i \in 0 .. 1 |-> sn[i + 1]], bd[1], bd[2])
       IN  /\ turn = g.turn
           /\ grid = g.grid
           /\ snakes = g.snakes
           /\ moves = <<>>
           /\ prev = g
           /\ ret = "init"
           /\ PlanIdle
           /\ request = <<>>

\* One call of Game::step in the game played to its end; the entry of a dead
\* body in the moves vector, which step does not read, is Up.
StepStarve ==
    /\ ret # "panic"
    /\ turn < MaxStarveTurn
    /\ \E mv \in MoveVecs(Size(snakes)) :
          LET r == StepResult(Game, mv)
          IN  /\ \A i \in DOMAIN mv : ~Alive(snakes[i]) => mv[i] = "Up"
              /\ ret' = r.ret
              /\ turn' = r.game.turn
              /\ grid' = r.game.grid
              /\ snakes' = r.game.snakes
              /\ moves' = mv
              /\ prev' = Game
    /\ UNCHANGED <<planVars, request>>

NextStarve == StepStarve

SpecStarve == InitStarve /\ [][NextStarve]_vars

\* step is called again and again.
FairStarve == SpecStarve /\ WF_vars(NextStarve)

-----------------------------------------------------------------------------
(* The last step call, as seen from the state it returned in               *)

\* A step call has returned normally: Game is prev after step(moves).
Stepped == ret = "ok"

\* The cell body i steered its head to in the last call.
Dest(i) == Apply(HeadOf(prev.snakes[i]), moves[i])

\* The Game of the last call after the tails were retracted,
\* and after the move phase.
Retracted == PopTail(prev)
Moved == MoveHead(PopTail(prev), moves)

WasAlive(i) == Alive(prev.snakes[i])
Died(i) == WasAlive(i) /\ ~Alive(snakes[i])

OwnedCells == {c \in Cells : grid[c].t = "Owned"}
LivingCells == UNION {Range(snakes[i].body) : i \in {k \in DOMAIN snakes : Alive(snakes[k])}}

RECURSIVE SumLen(_, _)
SumLen(sn, i) ==
    IF i >= Size(sn) THEN 0
    ELSE (IF Alive(sn[i]) THEN Len(sn[i].body) ELSE 0) + SumLen(sn, i + 1)

\* Some living body's head rests on cell c.
HeadHere(c) == \E j \in DOMAIN snakes : Alive(snakes[j]) /\ HeadOf(snakes[j]) = c

\* The health cost of entering cell c in the last call.
Cost(c) == IF prev.grid[c].hazard THEN HAZARD_DAMAGE ELSE 1

-----------------------------------------------------------------------------
(* C1 *)

\* C1: in every reachable state, every coordinate in the segment list of every
\* living body is tagged Owned in the Grid.
C1_LivingBodiesOwned ==
    \A i \in DOMAIN snakes :
       Alive(snakes[i]) => \A c \in Range(snakes[i].body) : grid[c].t = "Owned"

-----------------------------------------------------------------------------
(* C2 *)

-----------------------------------------------------------------------------
(* C3 *)

\* The segment list of body i in the last call: its body before the call and
\* the head it pushed.
FormerCells(i) ==
    Range(prev.snakes[i].body) \cup (IF Has(Dest(i)) THEN {Dest(i)} ELSE {})

\* C3 as stated: each body that died during the step has an empty body and
\* every coordinate of its segment list, pushed head included, is Free.
C3_DeadCellsFree ==
    Stepped =>
       \A i \in DOMAIN snakes :
          Died(i) =>
             /\ snakes[i].body = <<>>
             /\ \A c \in FormerCells(i) : grid[c].t = "Free"

\* C3 amended: each body that died during the step has an empty body and every
\* coordinate of its segment list, pushed head included, on which no living
\* body's head rests is Free.
C3_DeadCellsFreeButHeads ==
    Stepped =>
       \A i \in DOMAIN snakes :
          Died(i) =>
             /\ snakes[i].body = <<>>
             /\ \A c \in FormerCells(i) : ~HeadHere(c) => grid[c].t = "Free"

\* A body died with its head pushed onto a rival's segment, and all its
\* cells are Free.
C3_Witness ==
    /\ Stepped
    /\ \E i \in DOMAIN snakes :
          /\ Died(i)
          /\ Has(Dest(i))
          /\ Retracted.grid[Dest(i)].t = "Owned"
          /\ \A c \in FormerCells(i) : grid[c].t = "Free"

-----------------------------------------------------------------------------
(* C4 *)

\* Where direction d takes the head of body id in the current Game.
Target(id, d) == Apply(HeadOf(snakes[id]), d)

\* C4 as stated: every direction valid_moves(id) yields leads to a cell that is
\* in-bounds and either not Owned or body id's own tail cell, vacated this turn.
C4_ValidLeadsToFreeOrOwnTail ==
    \A id \in DOMAIN snakes :
       \A d \in Range(ValidMoves(Game, id)) :
          /\ Has(Target(id, d))
          /\ \/ grid[Target(id, d)].t # "Owned"
             \/ /\ Target(id, d) = snakes[id].body[1]
                /\ snakes[id].body[1] # snakes[id].body[2]

\* C4 amended: every direction valid_moves(id) yields leads to a cell that is
\* in-bounds and either not Owned or the tail cell of some living body (id or
\* a rival) that is vacated this turn: the tail retraction of step frees it.
C4_ValidLeadsToFreeOrVacatedTail ==
    \A id \in DOMAIN snakes :
       \A d \in Range(ValidMoves(Game, id)) :
          /\ Has(Target(id, d))
          /\ \/ grid[Target(id, d)].t # "Owned"
             \/ /\ \E j \in DOMAIN snakes :
                      Alive(snakes[j]) /\ Target(id, d) = snakes[j].body[1]
                /\ PopTail(Game).grid[Target(id, d)].t = "Free"

\* After a step, a body is offered a direction onto an Owned cell that is a
\* rival's tail.
C4_Witness ==
    /\ Stepped
    /\ \E id \in DOMAIN snakes :
          \E d \in Range(ValidMoves(Game, id)) :
             /\ grid[Target(id, d)].t = "Owned"
             /\ Target(id, d) # snakes[id].body[1]

-----------------------------------------------------------------------------
(* C5 *)

\* No other body that moved in the last call steered its head to the cell
\* body id steered to.
NoHeadToHead(id) ==
    \A j \in DOMAIN prev.snakes : j # id /\ WasAlive(j) => Dest(j) # Dest(id)

\* The move of body id in the last call used up its health: the destination
\* held no Food and its cost was not less than the health.
Starved(id) ==
    /\ Has(Dest(id))
    /\ prev.grid[Dest(id)].t # "Food"
    /\ prev.snakes[id].health <= Cost(Dest(id))

-----------------------------------------------------------------------------
(* C6 *)

\* C6 as stated: a living body whose new head lands on Food is one longer and
\* has health 100 after the step; any other surviving move keeps the length
\* and lowers the health by the cost of the destination.
C6_FoodGrows ==
    Stepped =>
       \A id \in DOMAIN prev.snakes :
          WasAlive(id) /\ Has(Dest(id)) =>
             IF Retracted.grid[Dest(id)].t = "Food"
             THEN /\ Len(snakes[id].body) = Len(prev.snakes[id].body) + 1
                  /\ snakes[id].health = 100
             ELSE Alive(snakes[id]) =>
                     /\ Len(snakes[id].body) = Len(prev.snakes[id].body)
                     /\ snakes[id].health = prev.snakes[id].health - Cost(Dest(id))

\* C6 amended: a living body whose new head lands on Food and that is alive
\* after the step (it did not lose a head-to-head there) is one longer and has
\* health 100; for a destination without Food the health after the step is 0
\* (collision, or the cost used it up) or the old health less the cost (the
\* hazard rate on a hazard cell, else 1), never more than before, and a body
\* alive after such a move keeps its length.
C6_FoodGrowsSurvivor ==
    Stepped =>
       \A id \in DOMAIN prev.snakes :
          WasAlive(id) /\ Has(Dest(id)) =>
             IF Retracted.grid[Dest(id)].t = "Food"
             THEN Alive(snakes[id]) =>
                     /\ Len(snakes[id].body) = Len(prev.snakes[id].body) + 1
                     /\ snakes[id].health = 100
             ELSE /\ snakes[id].health \in
                        {0, SatSub(prev.snakes[id].health, Cost(Dest(id)))}
                  /\ snakes[id].health <= prev.snakes[id].health
                  /\ Alive(snakes[id]) =>
                        /\ Len(snakes[id].body) = Len(prev.snakes[id].body)
                        /\ snakes[id].health =
                              prev.snakes[id].health - Cost(Dest(id))

\* One body ate and is alive, another entered a hazard cell and is alive.
C6_Witness ==
    /\ Stepped
    /\ \E id \in DOMAIN prev.snakes :
          /\ WasAlive(id)
          /\ Has(Dest(id))
          /\ Retracted.grid[Dest(id)].t = "Food"
          /\ prev.snakes[id].health < 100
          /\ snakes[id].health = 100
          /\ Len(snakes[id].body) = Len(prev.snakes[id].body) + 1
    /\ \E id \in DOMAIN prev.snakes :
          /\ WasAlive(id)
          /\ Has(Dest(id))
          /\ prev.grid[Dest(id)].hazard
          /\ snakes[id].health = prev.snakes[id].health - HAZARD_DAMAGE
          /\ Alive(snakes[id])

-----------------------------------------------------------------------------
(* C7 *)

\* Bodies i and j are both living after the move phase of the last call and
\* their heads coincide.
HeadsCoincide(i, j) ==
    /\ i # j
    /\ Alive(Moved.snakes[i])
    /\ Alive(Moved.snakes[j])
    /\ HeadOf(Moved.snakes[i]) = HeadOf(Moved.snakes[j])

\* C7: if two living bodies' heads coincide after the move phase, the one with
\* strictly fewer segments has health 0 after the step, with equal lengths
\* both have health 0, and in a two-body game the equal-length collision makes
\* outcome() report Match.
C7_HeadToHead ==
    Stepped =>
       \A i, j \in DOMAIN snakes :
          HeadsCoincide(i, j) =>
             /\ Len(Moved.snakes[i].body) < Len(Moved.snakes[j].body) =>
                   snakes[i].health = 0
             /\ Len(Moved.snakes[i].body) = Len(Moved.snakes[j].body) =>
                   /\ snakes[i].health = 0
                   /\ snakes[j].health = 0
                   /\ Size(snakes) = 2 => Outcome(snakes) = <<"Match">>

\* A head-to-head collision of a shorter and a longer body: the shorter one is
\* dead, the longer one alive.
C7_Witness ==
    /\ Stepped
    /\ \E i, j \in DOMAIN snakes :
          /\ HeadsCoincide(i, j)
          /\ Len(Moved.snakes[i].body) < Len(Moved.snakes[j].body)
          /\ snakes[i].health = 0
          /\ Alive(snakes[j])

-----------------------------------------------------------------------------
(* C8 *)

\* The new head of body i in the last call is out of bounds or on a cell
\* still Owned after the tails were retracted.
Crashed(i) ==
    WasAlive(i) /\ (~Has(Dest(i)) \/ Retracted.grid[Dest(i)].t = "Owned")

\* Body j survived the move phase of the last call and no other survivor of
\* that phase has its head where j's is.
MovedClear(j) ==
    /\ Alive(Moved.snakes[j])
    /\ \A k \in DOMAIN snakes : k # j => ~HeadsCoincide(j, k)

\* C8: a living body whose new head is out of bounds or on a cell still Owned
\* after the tail retraction is dead after the step, without growth or health
\* from food; a body it ran into is not killed by that: if its own move left
\* it alive and clear of a head-to-head, it is alive with the health of its
\* own move.
C8_CrashKillsOnlyMover ==
    Stepped =>
       \A i \in DOMAIN snakes :
          Crashed(i) =>
             /\ snakes[i].health = 0
             /\ snakes[i].body = <<>>
             /\ \A j \in DOMAIN snakes :
                   /\ j # i
                   /\ Has(Dest(i))
                   /\ Dest(i) \in Range(Retracted.snakes[j].body)
                   /\ MovedClear(j)
                   => /\ Alive(snakes[j])
                      /\ snakes[j].health = Moved.snakes[j].health

\* A body ran into a segment of a rival; it is dead and the rival is alive.
C8_Witness ==
    /\ Stepped
    /\ \E i, j \in DOMAIN snakes :
          /\ j # i
          /\ Crashed(i)
          /\ Has(Dest(i))
          /\ Dest(i) \in Range(Retracted.snakes[j].body)
          /\ snakes[i].health = 0
          /\ Alive(snakes[j])

-----------------------------------------------------------------------------
(* C9 *)

Living == {i \in DOMAIN snakes : snakes[i].health > 0}

\* C9: in every reachable state outcome() is Winner(id) exactly when id is the
\* only living body, Match exactly when no body is living and None exactly
\* when two or more are.
C9_Outcome ==
    /\ Outcome(snakes) = <<"Match">> <=> Living = {}
    /\ Outcome(snakes) = <<"None">> <=> Cardinality(Living) >= 2
    /\ \A id \in 0 .. Size(snakes) :
          Outcome(snakes) = <<"Winner", id>> <=> Living = {id}
    /\ Outcome(snakes) \in
          {<<"Match">>, <<"None">>} \cup {<<"Winner", id>> : id \in DOMAIN snakes}

\* After a step the body with the highest id is the only one left.
C9_Witness ==
    /\ Stepped
    /\ Living = {Size(snakes) - 1}
    /\ Outcome(snakes) = <<"Winner", Size(snakes) - 1>>

-----------------------------------------------------------------------------
(* C10 *)

\* C10: a step call with fewer moves than bodies, living or dead, fails on the
\* assertion, and at that point Grid, bodies, healths and turn are as before
\* the call; a call with enough moves does not fail.
C10_ShortMovesPanic ==
    ret # "init" =>
       /\ Size(moves) < Size(prev.snakes) <=> ret = "panic"
       /\ ret = "panic" => Game = prev

\* The call failed with a move for every living body but none for a dead one.
C10_Witness ==
    /\ ret = "panic"
    /\ Size(moves) >= 1
    /\ \A i \in DOMAIN snakes : Alive(snakes[i]) => i < Size(moves)
    /\ \E i \in DOMAIN snakes : ~Alive(snakes[i])
    /\ turn >= 1

-----------------------------------------------------------------------------
(* C15 *)

\* C15: after every step call the head cell of every still-living body is
\* tagged Owned, whatever the indices of the bodies, the case of a head-to-head
\* whose surviving longer body has a lower index than the body it killed
\* included.
C15_LivingHeadsOwned ==
    Stepped =>
       \A i \in DOMAIN snakes :
          Alive(snakes[i]) => grid[HeadOf(snakes[i])].t = "Owned"

-----------------------------------------------------------------------------
(* C16 *)

\* The full moves vectors that agree with the last call's on every body that
\* was living before the call.
AgreeOnLiving ==
    {mv \in [DOMAIN prev.snakes -> Dir] :
        \A i \in DOMAIN prev.snakes : WasAlive(i) => mv[i] = moves[i]}

\* C16: the entries of dead bodies in the moves vector are ignored: a step call
\* from the same Game with a moves vector that agrees with the last call's on
\* every living body returns normally in the same Game.
C16_DeadMovesIgnored ==
    Stepped =>
       \A mv \in AgreeOnLiving : StepResult(prev, mv) = [ret |-> "ok", game |-> Game]

\* The last call moved a living body that follows a dead one, and there is a
\* moves vector that differs from the last call's on the dead body only.
C16_Witness ==
    /\ Stepped
    /\ \E i, j \in DOMAIN prev.snakes :
          i < j /\ ~WasAlive(i) /\ WasAlive(j) /\ Alive(snakes[j])
    /\ \E mv \in AgreeOnLiving : mv # moves

-----------------------------------------------------------------------------
(* C17 *)

\* C17: a step call changes neither the number nor the order of the entries of
\* the body collection (a dead entry stays where it was, a surviving body keeps
\* its index: its neck is the head it had before the call), and after it each
\* body is either living with a non-empty segment list or dead with health 0
\* and an empty segment list.
C17_EntriesStable ==
    Stepped =>
       /\ DOMAIN snakes = DOMAIN prev.snakes
       /\ \A i \in DOMAIN snakes :
             /\ \/ Alive(snakes[i]) /\ snakes[i].body # <<>>
                \/ snakes[i].health = 0 /\ snakes[i].body = <<>>
             /\ ~WasAlive(i) => snakes[i] = prev.snakes[i]
             /\ Alive(snakes[i]) =>
                   /\ WasAlive(i)
                   /\ snakes[i].body[Len(snakes[i].body) - 1] = HeadOf(prev.snakes[i])

\* The last call killed body 0 and left body 1 living.
C17_Witness ==
    /\ Stepped
    /\ Died(0)
    /\ snakes[0].body = <<>>
    /\ WasAlive(1) /\ Alive(snakes[1])

-----------------------------------------------------------------------------
(* The decision, as seen from the state it stands in                       *)

Decided == pc = "done"
Legal == ValidMoves(Game, 0)
MyHead == HeadOf(snakes[0])

\* random has been called in the decision.
RandomCalled == tier = "random" \/ nots # <<>>

\* Cell c is one cardinal step from the head of a rival at least as long as self.
Threatened(c) ==
    \E j \in 1 .. Size(snakes) - 1 :
       /\ snakes[j].body # <<>>
       /\ Len(snakes[j].body) >= Len(snakes[0].body)
       /\ LET h == HeadOf(snakes[j])
              dx == IF h[1] >= c[1] THEN h[1] - c[1] ELSE c[1] - h[1]
              dy == IF h[2] >= c[2] THEN h[2] - c[2] ELSE c[2] - h[2]
          IN  dx + dy = 1

SafeMoves == {d \in Range(Legal) : ~Threatened(Apply(MyHead, d))}

-----------------------------------------------------------------------------
(* C11 *)

\* C11: on every snapshot (self living, as from_request builds it) the decision
\* of StarAgent::step neither fails nor stops short: it is over exactly when a
\* direction is set, until then it stands at a call that can be made (random
\* with a candidate left is never held back by the limit on draws), the
\* response is one of the four directions with or without a target or a path,
\* and it is Up when body 0 has no legal move.
C11_AlwaysADirection ==
    /\ resp \in Dir \cup {"none"}
    /\ Decided <=> resp \in Dir
    /\ pc \in {"idle", "random", "move_check", "done"}
    /\ pc = "move_check" => cand \in Dir
    /\ pc = "random" /\ RandomMoves(Game, nots) # <<>> => draws < MaxDraws
    /\ Decided /\ Legal = <<>> => resp = "Up"

\* A target exists, no path leads to it, body 0 has no legal move: Up.
C11_Witness ==
    /\ Decided
    /\ target[1] = "Some"
    /\ tier = "random"
    /\ Legal = <<>>
    /\ resp = "Up"

-----------------------------------------------------------------------------
(* C12 *)

\* C12: if at least one legal move of self leads to a cell that is not within
\* one cardinal step of the head of any rival at least as long as self, the
\* direction returned leads to a cell that is not within one cardinal step of
\* the head of any such rival.
C12_SafetyFilter ==
    Decided /\ SafeMoves # {} =>
       resp \in Dir /\ ~Threatened(Apply(MyHead, resp))

\* The path led next to a rival, was blacklisted, and a safe move was drawn.
C12_Witness ==
    /\ Decided
    /\ tier = "path"
    /\ nots # <<>>
    /\ resp \in SafeMoves
    /\ \E d \in Range(Legal) : d \notin SafeMoves

-----------------------------------------------------------------------------
(* C18 *)

\* The candidates put to move_check so far, and those of them rejected.
Candidates == draws + (IF tier = "path" THEN 1 ELSE 0)
Pending == IF pc = "move_check" \/ (Decided /\ ~exhausted) THEN 1 ELSE 0

\* The bookkeeping of the recursion between random and move_check.
RedrawsBounded ==
    /\ draws <= 4
    /\ Len(nots) <= 4
    /\ \A k, l \in 1 .. Len(nots) : k < l => nots[k] # nots[l]
    /\ Len(nots) = Candidates - Pending
    /\ pc = "move_check" /\ draws > 0 =>
          cand \in Range(Legal) /\ cand \notin Range(nots)

\* C18: the recursion between random and move_check ends for every snapshot:
\* every candidate random draws is a legal direction not yet blacklisted, the
\* blacklist grows by one distinct direction per rejection, at most four
\* candidates are drawn, and the decision is made in the end.
C18_FallbackTerminates == []RedrawsBounded /\ <>Decided

\* Four draws, each rejected: every direction is legal and none is safe.
C18_Witness ==
    /\ Decided
    /\ draws = 4
    /\ Len(nots) = 4
    /\ exhausted

-----------------------------------------------------------------------------
(* C19 *)

\* C19: whenever random is called in a decision, the direction returned is a
\* member of valid_moves(0) if that is non-empty; it is the first entry of the
\* unfiltered valid_moves(0) when every legal direction has been blacklisted;
\* it is Up when valid_moves(0) is empty.
C19_RandomResult ==
    Decided /\ RandomCalled =>
       /\ Legal # <<>> => resp \in Range(Legal)
       /\ Legal # <<>> /\ Range(Legal) \subseteq Range(nots) => resp = Legal[1]
       /\ Legal = <<>> => resp = "Up"

\* Two or more legal moves, all of them blacklisted.
C19_Witness ==
    /\ Decided
    /\ exhausted
    /\ Len(Legal) >= 2
    /\ Range(Legal) \subseteq Range(nots)
    /\ resp = Legal[1]

-----------------------------------------------------------------------------
(* C20 *)

FoodSet == {c \in Cells : grid[c].t = "Food"}

\* Cell a is met before cell b in a scan by rows, y ascending, x ascending
\* within a row.
MetBefore(a, b) == a[2] < b[2] \/ (a[2] = b[2] /\ a[1] < b[1])

\* C20: once the target is selected: when Food exists the target is a Food cell
\* of minimal squared Euclidean distance from the head of self and, among the
\* Food cells at that distance, the one the scan meets first; when no Food
\* exists there is no target and the first call is that of random.
C20_NearestFoodFirstMet ==
    pc # "idle" =>
       IF FoodSet = {}
       THEN target = <<"None">> /\ tier = "random"
       ELSE /\ target[1] = "Some"
            /\ target[2] \in FoodSet
            /\ \A c \in FoodSet \ {target[2]} :
                  \/ Dist2(target[2], MyHead) < Dist2(c, MyHead)
                  \/ /\ Dist2(target[2], MyHead) = Dist2(c, MyHead)
                     /\ MetBefore(target[2], c)

\* Two Food cells at the same distance from the head of self.
C20_Witness ==
    /\ Decided
    /\ target[1] = "Some"
    /\ \E c \in FoodSet :
          /\ c # target[2]
          /\ Dist2(c, MyHead) = Dist2(target[2], MyHead)
          /\ MetBefore(target[2], c)

-----------------------------------------------------------------------------
(* C13 *)

Loaded == ret = "loaded"

\* The rivals of the request as Snake values, and the rivals the Game holds.
RequestRivals == {SnakeFrom(bs) : bs \in Range(Others(request))}
KeptRivals == {snakes[i] : i \in 1 .. Size(snakes) - 1}

\* C13: from_request puts self at index 0; if more than four rivals are in the
\* request it keeps exactly three of them, none farther (by the Manhattan
\* distance of its nearest segment from the head of self) than a rival left
\* out; the Game holds at most 4 bodies.
C13_SelfFirstThreeNearest ==
    Loaded =>
       /\ snakes[0] = SnakeFrom(request.you)
       /\ KeptRivals \subseteq RequestRivals
       /\ Size(snakes) <= 4
       /\ Cardinality(RequestRivals) > 4 =>
             /\ Size(snakes) = 4
             /\ \A k \in KeptRivals : \A o \in RequestRivals \ KeptRivals :
                   BodyDist(k, HeadOf(snakes[0])) <= BodyDist(o, HeadOf(snakes[0]))

-----------------------------------------------------------------------------
(* C21 *)

\* The bodies living after the move phase of the last call with their heads
\* on the cell of the head of body i, body i left out.
Meeting(i) == {j \in DOMAIN snakes : HeadsCoincide(i, j)}

C21_WitnessShared ==
    /\ Stepped
    /\ \E i \in DOMAIN snakes :
          /\ Cardinality(Meeting(i)) = 2
          /\ \E j, k \in Meeting(i) :
                /\ Len(Moved.snakes[i].body) = Len(Moved.snakes[j].body)
                /\ Len(Moved.snakes[k].body) < Len(Moved.snakes[i].body)
          /\ \A j \in Meeting(i) \cup {i} : ~Alive(snakes[j])

-----------------------------------------------------------------------------
(* C22 *)

\* C22: in the constructed Game and after every sequence of step calls, every
\* cell tagged Owned is a segment of some living body: no Owned cell is left
\* behind a retracted tail or a dead body.
C22_OwnedIsLivingSegment == OwnedCells \subseteq LivingCells

\* The last call killed one body and retracted the tail of another, which
\* lives on; the cells of the dead body and the cell the tail left are not Owned.
C22_Witness ==
    /\ Stepped
    /\ \E i, j \in DOMAIN snakes :
          /\ Died(i)
          /\ Range(prev.snakes[i].body) \cap OwnedCells = {}
          /\ WasAlive(j) /\ Alive(snakes[j])
          /\ prev.snakes[j].body[1] \notin Range(snakes[j].body)
          /\ prev.snakes[j].body[1] \notin OwnedCells
          /\ OwnedCells # {}

-----------------------------------------------------------------------------
(* C23 *)

NoneLiving == \A i \in DOMAIN snakes : ~Alive(snakes[i])

\* The step from one state to the next keeps the dead dead.
DeadStayDead ==
    /\ DOMAIN snakes' = DOMAIN snakes
    /\ \A i \in DOMAIN snakes :
          snakes[i].health = 0 =>
             snakes'[i].health = 0 /\ snakes'[i].body = <<>>
    /\ Cardinality({i \in DOMAIN snakes' : Alive(snakes'[i])})
          <= Cardinality({i \in DOMAIN snakes : Alive(snakes[i])})
    /\ Outcome(snakes) = <<"Match">> => Outcome(snakes') = <<"Match">>

\* C23: a body that has health 0 has health 0 and an empty segment list in
\* every later state, the number of living bodies never grows from one state to
\* the next, and outcome() once Match stays Match.
C23_DeadStaysDead == [][DeadStayDead]_vars

\* A step call made on a Game without a living body returned, and the outcome
\* was Match before it and is Match after it.
C23_Witness ==
    /\ Stepped
    /\ Size(snakes) = 2
    /\ \A i \in DOMAIN prev.snakes : ~WasAlive(i)
    /\ Outcome(prev.snakes) = <<"Match">>
    /\ NoneLiving
    /\ Outcome(snakes) = <<"Match">>
    /\ turn = prev.turn + 1

-----------------------------------------------------------------------------
(* C24 *)

\* Body i moved its head onto a Food cell in the last call.
Eats(i) == WasAlive(i) /\ Has(Dest(i)) /\ Retracted.grid[Dest(i)].t = "Food"

\* The last call added no Food, took the Food a body ate, and lowered the
\* health of every living body that did not eat by at least 1.
Starving ==
    Stepped =>
       /\ FoodSet \subseteq {c \in Cells : prev.grid[c].t = "Food"}
       /\ \A i \in DOMAIN prev.snakes :
             WasAlive(i) =>
                IF Eats(i) THEN Dest(i) \notin FoodSet
                ELSE snakes[i].health + 1 <= prev.snakes[i].health

\* C24: step never adds Food, and every step in which a living body does not
\* eat lowers its health by at least 1; so when step is called again and again
\* with arbitrary moves, a state is reached in which every body is dead and
\* outcome() is Match, unless a call fails on its assertion.
C24_StarvationEnds ==
    /\ []Starving
    /\ <>(ret = "panic" \/ (NoneLiving /\ Outcome(snakes) = <<"Match">>))

\* A body ate the Food, grew to four segments, lost its last health on a free
\* cell a hundred calls later, and none is living.
C24_Witness ==
    /\ Stepped
    /\ NoneLiving
    /\ Outcome(snakes) = <<"Match">>
    /\ FoodSet = {}
    /\ prev.turn >= 100
    /\ \E i \in DOMAIN snakes :
          /\ Died(i)
          /\ Len(prev.snakes[i].body) = 4
          /\ prev.snakes[i].health = 1
          /\ Has(Dest(i))
          /\ Retracted.grid[Dest(i)].t = "Free"

====
